---------------------------- MODULE Spec2Model ----------------------------
(***************************************************************************)
(* TuneWeaver (src/app.py): the artist-discovery and playlist-assembly     *)
(* pipeline of the Streamlit script, with the remote Spotify client as the *)
(* environment.  One action per answer of the remote API; the script's     *)
(* local code between two remote calls is part of the action.              *)
(*                                                                         *)
(* Conventions.  A Python string that the code parses is a sequence of     *)
(* one-character strings.  A Python Optional is a sequence of length 0     *)
(* (None) or 1 (the value).  Time is in seconds.                           *)
(***************************************************************************)
EXTENDS Integers, Sequences, FiniteSets, TLC

VARIABLES
    pc,             \* where the script is: "idle", a remote call site, or "done"
    entry,          \* the function under execution at the top of the call stack
    seed_input, n_suggestions, pop_thresh,     \* the form's fields at submit
    call,           \* the remote operation safe_sp_call is invoking
    invoked,        \* the invocations of fn made by the current safe_sp_call
    signals,        \* the Retry-After headers of the 429s it received
    sleeps,         \* the time.sleep calls it made, in seconds
    last_answer,    \* the last answer of the remote API
    last_ret,       \* what the last safe_sp_call returned (Optional)
    log,            \* the safe_sp_call calls of this request: [op, arg]
    seed_artist,    \* Optional artist record
    ids,            \* fetch_artist_details' argument
    chunk_i,        \* offset of the chunk in flight (range(0, len(ids), 50))
    details,        \* fetch_artist_details' accumulator
    fetched,        \* what fetch_artist_details returned to get_related_artists
    related,        \* get_related_artists' result (CandidateSet)
    art_i,          \* 0 while the seed's tracks are fetched, else index in related
    playlist, total_ms,
    retrieved,      \* a top-tracks call of this run has returned at least one track
    outcome,        \* what the script displayed at the end of the run
    links,          \* the mappings of generate_streaming_links, one per displayed track
    full_links,     \* the mapping of generate_playlist_search_link
    auth_error,     \* safe_sp_call has shown st.error("Auth error ...") in this request
    cache_search,   \* st.cache_data of search_artist: key -> [value, expires]
    cache_details,  \* st.cache_data of fetch_artist_details
    now,            \* the clock
    api,            \* the remote API: "clears", or "throttles_forever"
    frames,         \* the safe_sp_call frames on the call stack (0: no call in progress)
    requests,       \* runs of the script so far
    throttles       \* 429 answers so far

vars == <<pc, entry, seed_input, n_suggestions, pop_thresh, call, invoked, signals,
          sleeps, last_answer, last_ret, log, seed_artist, ids, chunk_i, details,
          fetched, related, art_i, playlist, total_ms, retrieved, outcome, links,
          full_links, auth_error, cache_search, cache_details, now, api, frames,
          requests, throttles>>

-----------------------------------------------------------------------------
(* Bounds of the model *)

MaxRequests == 2      \* runs of the script in one behaviour
MaxThrottle == 2      \* 429 answers in one behaviour when a function is called directly
MaxRunThrottle == 1   \* 429 answers in one run of the whole script
MaxRelated == 2       \* artists in a related-artists answer (pipeline)
MaxTracks == 3        \* tracks in a top-tracks answer
MaxIds == 101         \* identifiers given to fetch_artist_details directly
MaxCount == 3         \* num_artists given to get_related_artists directly
MaxDirectRelated == 3 \* artists in a related-artists answer (direct calls)
MaxNow == 3700        \* the clock stops here
MaxLinkTracks == 5    \* tracks given to generate_playlist_search_link directly

(* Program constants *)

ChunkSize == 50                  \* chunked(ids, 50)
NumTracks == 2                   \* get_artist_top_tracks(..., 2)
DefaultPopularity == 100         \* a.get('popularity', 100)
DefaultRetryAfter == 1           \* e.headers.get('Retry-After', 1)
TTL == 3600                      \* st.cache_data(ttl=3600)
RecursionLimit == 1000           \* the interpreter's limit on nested calls (its default)
IdLength == 22                   \* [A-Za-z0-9]{22}
target_ms == 60 * 60 * 1000
NoPop == -1                      \* a record without a 'popularity' key
Absent == -1                     \* a 429 without a Retry-After header

-----------------------------------------------------------------------------
(* Python values *)

None == <<>>
Some(x) == <<x>>
Min(a, b) == IF a < b THEN a ELSE b

\* lst[:n] for n >= 0
Take(lst, n) == SubSeq(lst, 1, Min(n, Len(lst)))

\* variant: the slice's end is included
SliceInclusive(lst, i, n) == SubSeq(lst, i + 1, Min(i + n + 1, Len(lst)))

\* lst[i:i+n] with i a 0-based offset
Slice(lst, i, n) == SubSeq(lst, i + 1, Min(i + n, Len(lst)))

Range(s) == {s[i] : i \in DOMAIN s}

-----------------------------------------------------------------------------
(* extract_artist_id *)

Lower == {"a","b","c","d","e","f","g","h","i","j","k","l","m",
          "n","o","p","q","r","s","t","u","v","w","x","y","z"}
Upper == {"A","B","C","D","E","F","G","H","I","J","K","L","M",
          "N","O","P","Q","R","S","T","U","V","W","X","Y","Z"}
Digit == {"0","1","2","3","4","5","6","7","8","9"}
Alnum == Lower \cup Upper \cup Digit          \* [A-Za-z0-9]
Whitespace == {" "}

URIPrefix == <<"s","p","o","t","i","f","y",":","a","r","t","i","s","t",":">>
URLPrefix == <<"o","p","e","n",".","s","p","o","t","i","f","y",".","c","o","m",
               "/","a","r","t","i","s","t","/">>

HasPrefixAt(s, p, pre) ==
    /\ p + Len(pre) - 1 <= Len(s)
    /\ SubSeq(s, p, p + Len(pre) - 1) = pre

\* the regex matches at p: one of the two prefixes, then at least one [A-Za-z0-9]
MatchAt(s, p) ==
    \E pre \in {URIPrefix, URLPrefix} :
        /\ HasPrefixAt(s, p, pre)
        /\ p + Len(pre) <= Len(s)
        /\ s[p + Len(pre)] \in Alnum

\* the greedy group ([A-Za-z0-9]+) starting at position q
AlnumRun(s, q) ==
    LET e == CHOOSE e \in q .. Len(s) :
                 /\ \A k \in q .. e : s[k] \in Alnum
                 /\ (e = Len(s) \/ s[e + 1] \notin Alnum)
    IN  SubSeq(s, q, e)

\* re.search: the leftmost match
Group1(s) ==
    LET p == CHOOSE p \in 1 .. Len(s) :
                 MatchAt(s, p) /\ \A q \in 1 .. (p - 1) : ~MatchAt(s, q)
        pre == CHOOSE pre \in {URIPrefix, URLPrefix} : HasPrefixAt(s, p, pre)
    IN  AlnumRun(s, p + Len(pre))

FullMatchId(s) == Len(s) = IdLength /\ \A k \in 1 .. Len(s) : s[k] \in Alnum

extract_artist_id(input_str) ==
    IF \E p \in 1 .. Len(input_str) : MatchAt(input_str, p)
    THEN Some(Group1(input_str))
    ELSE IF FullMatchId(input_str) THEN Some(input_str) ELSE None

\* seed_input.strip(): a blank input strips to ''
Blank(s) == \A k \in 1 .. Len(s) : s[k] \in Whitespace

-----------------------------------------------------------------------------
(* What the form and the remote API can give *)

Id5 == <<"1","X","y","o","4">>
Id22 == [k \in 1 .. IdLength |-> IF k % 2 = 0 THEN "7" ELSE "q"]
Id21 == SubSeq(Id22, 1, IdLength - 1)

ProfileURL == <<"h","/","/">> \o URLPrefix \o Id5 \o <<"?","s","i">>

SeedInputs ==
    { <<>>, <<" ">>,                         \* blank
      <<"A","b">>,                           \* a name
      Id21,                                  \* one character short of an identifier
      Id22,                                  \* a bare identifier
      URIPrefix \o Id5,                      \* spotify:artist:<id>
      ProfileURL,                            \* a profile URL
      URIPrefix }                            \* the prefix with no identifier

\* what the form is given in the runs of the whole script
FormInputs == {<<" ">>, <<"A","b">>, URIPrefix \o Id5}
CountValues == {5}               \* st.slider("# of Artist Suggestions", 5, 20, 10)
ThresholdValues == {60}          \* st.slider("Max Popularity", 0, 100, 60)

PopValues == {NoPop, 10, 60, 100}   \* when get_related_artists is called directly
RunPopValues == {10, 60}         \* in a run of the whole script
Durations == {1200000, 3600000}
RetryAfterValues == {Absent, 2}
FailStatuses == {401, 403, 404, 500, 0}      \* 0: an exception that is no SpotifyException

\* the decimal digits of a natural number
RECURSIVE Digits(_)
Digits(i) == IF i < 10 THEN <<ToString(i)>> ELSE Digits(i \div 10) \o <<ToString(i % 10)>>

ArtistId(i) == <<"r">> \o Digits(i)
ArtistName(id) == <<"T","h","e"," ">> \o id
Artist(id, pop) == [id |-> id, name |-> ArtistName(id), popularity |-> pop]
Track(k, d) == [name |-> <<"t">> \o Digits(k), duration_ms |-> d]

SeedArtists == {Artist(<<"s","1">>, 80)}

\* an answer of the remote client: a JSON object returned (status 200), or an
\* exception raised, which carries no object
NoBody == [raised |-> TRUE]
Ok(v) == [status |-> 200, value |-> v, retry_after |-> Absent]
Fail(st) == [status |-> st, value |-> NoBody, retry_after |-> Absent]
Throttle(ra) == [status |-> 429, value |-> NoBody, retry_after |-> ra]

Failures == {Fail(st) : st \in FailStatuses}
ThrottleAnswers == {Throttle(ra) : ra \in RetryAfterValues}

\* sp.artist(id)
ArtistAnswers == {Ok(a) : a \in SeedArtists} \cup Failures

\* sp.search(q=..., type="artist", limit=1): the object res['artists']
SearchAnswers ==
    {Ok([items |-> <<>>])} \cup {Ok([items |-> <<a>>]) : a \in SeedArtists} \cup Failures

\* sp.artist_related_artists(id): res['artists']
RelatedAnswers(max) ==
    {Ok([artists |-> [i \in 1 .. k |-> [id |-> ArtistId(i)]]]) : k \in 0 .. max}
    \cup Failures

\* sp.artists(chunk): res['artists'], one record per identifier; the popularities
\* are enumerated for the short chunks only
BatchAnswers(chunk, pops) ==
    (IF Len(chunk) <= MaxDirectRelated
     THEN {Ok([artists |-> [i \in 1 .. Len(chunk) |-> Artist(chunk[i], f[i])]]) :
               f \in [1 .. Len(chunk) -> pops]}
     ELSE {Ok([artists |->
                  [i \in 1 .. Len(chunk) |-> Artist(chunk[i], 10 * (i % 7))]])})
    \cup {Ok([artists |-> <<>>])} \cup Failures

\* sp.artist_top_tracks(id, market='BE'): res['tracks']
\* (the durations are enumerated for the tracks that can be taken)
TopTracksAnswers ==
    {Ok([tracks |->
            [i \in 1 .. k |-> Track(i, IF i <= NumTracks THEN f[i] ELSE 1200000)]]) :
         f \in [1 .. NumTracks -> Durations], k \in 0 .. MaxTracks} \cup Failures

NoCall == [op |-> "none", arg |-> <<>>]
NoAnswer == [status |-> -1, value |-> NoBody, retry_after |-> Absent]

-----------------------------------------------------------------------------
(* The state as one record, so that the code's functions are operators on it *)

Cur ==
    [pc |-> pc, entry |-> entry, seed_input |-> seed_input,
     n_suggestions |-> n_suggestions, pop_thresh |-> pop_thresh, call |-> call,
     invoked |-> invoked, signals |-> signals, sleeps |-> sleeps,
     last_answer |-> last_answer, last_ret |-> last_ret, log |-> log,
     seed_artist |-> seed_artist, ids |-> ids, chunk_i |-> chunk_i,
     details |-> details, fetched |-> fetched, related |-> related, art_i |-> art_i,
     playlist |-> playlist, total_ms |-> total_ms, retrieved |-> retrieved,
     outcome |-> outcome, links |-> links, full_links |-> full_links,
     auth_error |-> auth_error, cache_search |-> cache_search,
     cache_details |-> cache_details, now |-> now, api |-> api,
     frames |-> frames, requests |-> requests, throttles |-> throttles]

\* the next state is s (s is evaluated once)
Becomes(s) ==
    \E t \in {s} :
        /\ pc' = t.pc /\ entry' = t.entry /\ seed_input' = t.seed_input
        /\ n_suggestions' = t.n_suggestions /\ pop_thresh' = t.pop_thresh
        /\ call' = t.call /\ invoked' = t.invoked /\ signals' = t.signals
        /\ sleeps' = t.sleeps /\ last_answer' = t.last_answer /\ last_ret' = t.last_ret
        /\ log' = t.log /\ seed_artist' = t.seed_artist /\ ids' = t.ids
        /\ chunk_i' = t.chunk_i /\ details' = t.details /\ fetched' = t.fetched
        /\ related' = t.related /\ art_i' = t.art_i /\ playlist' = t.playlist
        /\ total_ms' = t.total_ms /\ retrieved' = t.retrieved /\ outcome' = t.outcome
        /\ links' = t.links /\ full_links' = t.full_links /\ auth_error' = t.auth_error
        /\ cache_search' = t.cache_search /\ cache_details' = t.cache_details
        /\ now' = t.now /\ api' = t.api /\ frames' = t.frames
        /\ requests' = t.requests /\ throttles' = t.throttles

\* the state a run of the script starts from; the caches and the clock are kept
Fresh(s, e) ==
    [s EXCEPT !.pc = "idle", !.entry = e, !.seed_input = <<>>, !.n_suggestions = 0,
              !.pop_thresh = 0, !.call = NoCall, !.invoked = <<>>, !.signals = <<>>,
              !.sleeps = <<>>, !.last_answer = NoAnswer, !.last_ret = None,
              !.log = <<>>, !.seed_artist = None, !.ids = <<>>, !.chunk_i = 0,
              !.details = <<>>, !.fetched = <<>>, !.related = <<>>, !.art_i = 0,
              !.playlist = <<>>, !.total_ms = 0, !.retrieved = FALSE,
              !.outcome = "none", !.links = <<>>, !.full_links = <<>>,
              !.auth_error = FALSE, !.frames = 0, !.requests = @ + 1]

-----------------------------------------------------------------------------
(* safe_sp_call *)

\* safe_sp_call(fn, *args): fn(*args) is invoked and its answer awaited at `site`
Call(s, site, op, arg) ==
    LET c == [op |-> op, arg |-> arg]
    IN  [s EXCEPT !.pc = site, !.call = c, !.invoked = <<c>>, !.signals = <<>>,
                  !.sleeps = <<>>, !.log = Append(@, c), !.frames = 1]

\* variant: the Retry-After header is not read
RetryAfterIgnoringHeader(answer) == DefaultRetryAfter

\* retry = int(e.headers.get('Retry-After', 1))
RetryAfter(answer) ==
    IF answer.retry_after = Absent THEN DefaultRetryAfter ELSE answer.retry_after

\* variant: a 429 is handled as the other failures are: no retry, None returned,
\* which here ends the function under execution
RetryNotRecursing(s, answer) ==
    [s EXCEPT !.pc = "done", !.outcome = "returned", !.call = NoCall,
              !.last_answer = answer, !.last_ret = None, !.frames = 0,
              !.throttles = @ + 1]

\* variant: after one retry the wrapper gives up and the run is abandoned
RetryGivingUp(s, answer) ==
    IF Len(s.invoked) >= 2
    THEN [s EXCEPT !.pc = "done", !.outcome = "gave_up", !.call = NoCall,
                   !.last_answer = answer, !.frames = 0]
    ELSE [s EXCEPT !.signals = Append(@, answer.retry_after),
                   !.sleeps = Append(@, RetryAfter(answer)),
                   !.now = @ + RetryAfter(answer),
                   !.invoked = Append(@, s.call),
                   !.last_answer = answer,
                   !.frames = @ + 1,
                   !.throttles = @ + 1]

\* status == 429: time.sleep(retry); return safe_sp_call(fn, *args, **kwargs)
Retry(s, answer) ==
    [s EXCEPT !.signals = Append(@, answer.retry_after),
              !.sleeps = Append(@, RetryAfter(answer)),
              !.now = @ + RetryAfter(answer),
              !.invoked = Append(@, s.call),
              !.last_answer = answer,
              !.frames = @ + 1,
              !.throttles = @ + 1]

\* what safe_sp_call returns on an answer that is no 429
safe_sp_call(answer) ==
    IF answer.status = 200 THEN Some(answer.value) ELSE None

\* st.error(f"Auth error ({status}): {e}")
ShowsAuthError(answer) == answer.status \in {401, 403}

\* the state when safe_sp_call returns
Returned(s, answer) ==
    [s EXCEPT !.last_answer = answer, !.last_ret = safe_sp_call(answer),
              !.call = NoCall, !.frames = 0,
              !.auth_error = @ \/ ShowsAuthError(answer)]

\* the script has run to its end
Finish(s, oc) == [s EXCEPT !.pc = "done", !.outcome = oc, !.call = NoCall]

-----------------------------------------------------------------------------
(* st.cache_data(ttl=3600) *)

EmptyCache == <<>>
\* variant: an entry never expires
HitForever(cache, key, t) == key \in DOMAIN cache

Hit(cache, key, t) == key \in DOMAIN cache /\ t < cache[key].expires
Store(cache, key, v, t) == (key :> [value |-> v, expires |-> t + TTL]) @@ cache

-----------------------------------------------------------------------------
(* Link generators, lines 137-159 *)

\* urllib.parse.quote_plus keeps these characters
Unreserved == Alnum \cup {"_", ".", "-", "~"}

\* the two hexadecimal digits of the other ASCII characters the model uses
PercentCode ==
    [c \in {",", "&", ":", "/", "?", "+"} |->
        CASE c = "," -> <<"2","C">>
          [] c = "&" -> <<"2","6">>
          [] c = ":" -> <<"3","A">>
          [] c = "/" -> <<"2","F">>
          [] c = "?" -> <<"3","F">>
          [] c = "+" -> <<"2","B">>]

QuoteChar(c) ==
    IF c \in Unreserved THEN <<c>>
    ELSE IF c = " " THEN <<"+">>
    ELSE <<"%">> \o PercentCode[c]

\* urllib.parse.quote_plus(s)
RECURSIVE quote_plus(_)
quote_plus(s) == IF s = <<>> THEN <<>> ELSE QuoteChar(Head(s)) \o quote_plus(Tail(s))

\* sep.join(parts)
RECURSIVE Join(_, _)
Join(sep, parts) ==
    IF parts = <<>> THEN <<>>
    ELSE IF Len(parts) = 1 THEN parts[1]
    ELSE parts[1] \o sep \o Join(sep, Tail(parts))

SpotifySearch == <<"h","t","t","p","s",":","/","/","o","p","e","n",".","s","p","o",
                 "t","i","f","y",".","c","o","m","/","s","e","a","r","c","h","/">>
AppleSearch == <<"h","t","t","p","s",":","/","/","m","u","s","i","c",".","a","p",
               "p","l","e",".","c","o","m","/","u","s","/","s","e","a","r","c",
               "h","?","t","e","r","m","=">>
DeezerSearch == <<"h","t","t","p","s",":","/","/","w","w","w",".","d","e","e","z",
                "e","r",".","c","o","m","/","s","e","a","r","c","h","/">>
YouTubeSearch == <<"h","t","t","p","s",":","/","/","m","u","s","i","c",".","y","o",
                 "u","t","u","b","e",".","c","o","m","/","s","e","a","r","c","h",
                 "?","q","=">>

\* a dict keeps the order of its keys: a sequence of entries
Link(service, template, q) == [service |-> service, url |-> template \o q]

generate_streaming_links(track_name, artist_name) ==
    LET q == quote_plus(track_name \o <<" ">> \o artist_name)
    IN  << Link("Spotify", SpotifySearch, q),
           Link("Apple Music", AppleSearch, q),
           Link("Deezer", DeezerSearch, q),
           Link("YouTube Music", YouTubeSearch, q) >>

\* tracks[:4]
FirstTracks == 4

\* variant: every track of the list goes into the phrase
generate_playlist_search_link_uncut(tracks) ==
    IF tracks = <<>> THEN <<>>
    ELSE LET parts == [i \in 1 .. Len(tracks) |->
                          tracks[i].name \o <<" ">> \o tracks[i].artist]
             q == quote_plus(Join(<<",", " ">>, parts))
         IN  << Link("Spotify", SpotifySearch, q),
                Link("Apple Music", AppleSearch, q),
                Link("Deezer", DeezerSearch, q) >>

generate_playlist_search_link(tracks) ==
    IF tracks = <<>> THEN <<>>
    ELSE LET first == Take(tracks, FirstTracks)
             parts == [i \in 1 .. Len(first) |->
                          first[i].name \o <<" ">> \o first[i].artist]
             q == quote_plus(Join(<<",", " ">>, parts))
         IN  << Link("Spotify", SpotifySearch, q),
                Link("Apple Music", AppleSearch, q),
                Link("Deezer", DeezerSearch, q) >>

-----------------------------------------------------------------------------
(* Playlist assembly, lines 201-234 *)

\* variant: the answer is not cut to num_tracks
get_artist_top_tracks_uncut(ret) ==
    IF ret # None THEN ret[1].tracks ELSE <<>>

\* get_artist_top_tracks: res.get('tracks', [])[:num_tracks] if res else []
get_artist_top_tracks(ret) ==
    IF ret # None THEN Take(ret[1].tracks, NumTracks) ELSE <<>>

Entry(t, artist_name) ==
    [name |-> t.name, artist |-> artist_name, duration_ms |-> t.duration_ms]

\* variant: a track is appended while total_ms <= target_ms
RECURSIVE AddSeedTracksAtTarget(_, _, _)
AddSeedTracksAtTarget(s, tracks, artist_name) ==
    IF tracks = <<>> THEN s
    ELSE IF s.total_ms <= target_ms
         THEN AddSeedTracksAtTarget(
                  [s EXCEPT !.playlist = Append(@, Entry(Head(tracks), artist_name)),
                            !.total_ms = @ + Head(tracks).duration_ms],
                  Tail(tracks), artist_name)
         ELSE AddSeedTracksAtTarget(s, Tail(tracks), artist_name)

\* lines 205-208: every track is looked at, appended while total_ms < target_ms
RECURSIVE AddSeedTracks(_, _, _)
AddSeedTracks(s, tracks, artist_name) ==
    IF tracks = <<>> THEN s
    ELSE IF s.total_ms < target_ms
         THEN AddSeedTracks(
                  [s EXCEPT !.playlist = Append(@, Entry(Head(tracks), artist_name)),
                            !.total_ms = @ + Head(tracks).duration_ms],
                  Tail(tracks), artist_name)
         ELSE AddSeedTracks(s, Tail(tracks), artist_name)

\* variant: the running total is not updated
RECURSIVE AddRelatedTracksNoTotal(_, _, _)
AddRelatedTracksNoTotal(s, tracks, artist_name) ==
    IF tracks = <<>> THEN s
    ELSE AddRelatedTracksNoTotal(
             [s EXCEPT !.playlist = Append(@, Entry(Head(tracks), artist_name))],
             Tail(tracks), artist_name)

\* variant: a related artist's track is appended while total_ms <= target_ms
RECURSIVE AddRelatedTracksAtTarget(_, _, _)
AddRelatedTracksAtTarget(s, tracks, artist_name) ==
    IF tracks = <<>> THEN s
    ELSE IF s.total_ms <= target_ms
         THEN AddRelatedTracksAtTarget(
                  [s EXCEPT !.playlist = Append(@, Entry(Head(tracks), artist_name)),
                            !.total_ms = @ + Head(tracks).duration_ms],
                  Tail(tracks), artist_name)
         ELSE s

\* lines 213-218: as above, with a break at the first track not appended
RECURSIVE AddRelatedTracks(_, _, _)
AddRelatedTracks(s, tracks, artist_name) ==
    IF tracks = <<>> THEN s
    ELSE IF s.total_ms < target_ms
         THEN AddRelatedTracks(
                  [s EXCEPT !.playlist = Append(@, Entry(Head(tracks), artist_name)),
                            !.total_ms = @ + Head(tracks).duration_ms],
                  Tail(tracks), artist_name)
         ELSE s

\* lines 220-234
Display(s) ==
    IF s.playlist = <<>> THEN Finish(s, "no_tracks")
    ELSE Finish([s EXCEPT
                    !.links = [i \in 1 .. Len(s.playlist) |->
                                  generate_streaming_links(s.playlist[i].name,
                                                           s.playlist[i].artist)],
                    !.full_links = generate_playlist_search_link(s.playlist)],
                "playlist")

\* variant: the loop over related has no `if total_ms >= target_ms: break`
NextArtistNoBreak(s, i) ==
    IF i > Len(s.related) THEN Display(s)
    ELSE Call([s EXCEPT !.art_i = i], "top_tracks", "artist_top_tracks",
              <<s.related[i].id>>)

\* lines 210-213: the loop over related, at its i-th artist
NextArtist(s, i) ==
    IF i > Len(s.related) THEN Display(s)
    ELSE IF s.total_ms >= target_ms THEN Display(s)
    ELSE Call([s EXCEPT !.art_i = i], "top_tracks", "artist_top_tracks",
              <<s.related[i].id>>)

\* safe_sp_call(sp.artist_top_tracks, ...) has returned ret
TopTracksDone(s, ret) ==
    LET s1 == [s EXCEPT !.retrieved = @ \/ (ret # None /\ ret[1].tracks # <<>>)]
    IN  IF s.art_i = 0
        THEN NextArtist(AddSeedTracks(s1, get_artist_top_tracks(ret),
                                      s.seed_artist[1].name), 1)
        ELSE NextArtist(AddRelatedTracks(s1, get_artist_top_tracks(ret),
                                         s.related[s.art_i].name), s.art_i + 1)

-----------------------------------------------------------------------------
(* get_related_artists and fetch_artist_details *)

\* a.get('popularity', 100)
Popularity(a) == IF a.popularity = NoPop THEN DefaultPopularity ELSE a.popularity

\* [a for a in artists if a.get('popularity', 100) < popularity_threshold]
Lesser(artists, T) == SelectSeq(artists, LAMBDA a : Popularity(a) < T)

\* variant: an element goes before the elements that are equal (not stable)
SortedInsertBeforeEqual(sorted, x) ==
    LET k == Cardinality({i \in 1 .. Len(sorted) : Popularity(sorted[i]) < Popularity(x)})
    IN  SubSeq(sorted, 1, k) \o <<x>> \o SubSeq(sorted, k + 1, Len(sorted))

\* list.sort(key=...) is stable: an element goes after the elements that are
\* not greater
SortedInsert(sorted, x) ==
    LET k == Cardinality({i \in 1 .. Len(sorted) : Popularity(sorted[i]) <= Popularity(x)})
    IN  SubSeq(sorted, 1, k) \o <<x>> \o SubSeq(sorted, k + 1, Len(sorted))

RECURSIVE SortByPopularity(_)
SortByPopularity(lst) ==
    IF lst = <<>> THEN <<>>
    ELSE SortedInsert(SortByPopularity(SubSeq(lst, 1, Len(lst) - 1)), lst[Len(lst)])

\* lines 124-126
RankCandidates(artists, N, T) == Take(SortByPopularity(Lesser(artists, T)), N)

\* variant: the script does not test `if not related`
RelatedReturnedUnchecked(s, rel) ==
    LET s1 == [s EXCEPT !.related = rel]
    IN  IF s.entry = "get_related_artists" THEN Finish(s1, "returned")
        ELSE Call([s1 EXCEPT !.playlist = <<>>, !.total_ms = 0, !.art_i = 0],
                  "top_tracks", "artist_top_tracks", <<s.seed_artist[1].id>>)

\* get_related_artists has returned rel; lines 186-205
RelatedReturned(s, rel) ==
    LET s1 == [s EXCEPT !.related = rel]
    IN  IF s.entry = "get_related_artists" THEN Finish(s1, "returned")
        ELSE IF rel = <<>> THEN Finish(s1, "no_related")
        ELSE Call([s1 EXCEPT !.playlist = <<>>, !.total_ms = 0, !.art_i = 0],
                  "top_tracks", "artist_top_tracks", <<s.seed_artist[1].id>>)

\* fetch_artist_details has returned dets; store: the call was no cache hit
DetailsReturned(s, dets, store) ==
    LET s1 == [s EXCEPT !.fetched = dets,
                        !.cache_details =
                            IF store THEN Store(@, s.ids, dets, s.now) ELSE @]
    IN  IF s.entry = "fetch_artist_details" THEN Finish(s1, "returned")
        ELSE RelatedReturned(s1, RankCandidates(dets, s.n_suggestions, s.pop_thresh))

\* for chunk in chunked(ids, 50), at offset i
NextChunk(s, i) ==
    IF i >= Len(s.ids) THEN DetailsReturned(s, s.details, TRUE)
    ELSE Call([s EXCEPT !.chunk_i = i], "artists", "artists",
              Slice(s.ids, i, ChunkSize))

\* variant: a chunk that gives nothing ends the loop
BatchDoneStopping(s, ret) ==
    IF ret # None /\ ret[1].artists # <<>>
    THEN NextChunk([s EXCEPT !.details = @ \o ret[1].artists], s.chunk_i + ChunkSize)
    ELSE DetailsReturned(s, s.details, TRUE)

\* lines 109-111: safe_sp_call(sp.artists, chunk) has returned ret
BatchDone(s, ret) ==
    NextChunk(IF ret # None /\ ret[1].artists # <<>>
              THEN [s EXCEPT !.details = @ \o ret[1].artists] ELSE s,
              s.chunk_i + ChunkSize)

fetch_artist_details(s, idlist) ==
    LET s1 == [s EXCEPT !.ids = idlist, !.details = <<>>, !.chunk_i = 0]
    IN  IF Hit(s.cache_details, idlist, s.now)
        THEN DetailsReturned(s1, s.cache_details[idlist].value, FALSE)
        ELSE NextChunk(s1, 0)

\* lines 120-123: safe_sp_call(sp.artist_related_artists, artist_id) has returned ret
RelatedDone(s, ret) ==
    IF ret = None \/ ret[1].artists = <<>> THEN RelatedReturned(s, <<>>)
    ELSE fetch_artist_details(s, [i \in 1 .. Len(ret[1].artists) |->
                                     ret[1].artists[i].id])

get_related_artists(s, artist_id) ==
    Call(s, "related", "artist_related_artists", <<artist_id>>)

-----------------------------------------------------------------------------
(* search_artist and the submit handler *)

\* search_artist has returned v; lines 181-185
SeedReturned(s, v, store) ==
    LET s1 == [s EXCEPT !.seed_artist = v,
                        !.cache_search =
                            IF store THEN Store(@, s.seed_input, v, s.now) ELSE @]
    IN  IF s.entry = "search_artist" THEN Finish(s1, "returned")
        ELSE IF v = None THEN Finish(s1, "seed_not_found")
        ELSE get_related_artists(s1, v[1].id)

\* q=f"artist:{name_or_id}"
Query(name_or_id) == <<"a","r","t","i","s","t",":">> \o name_or_id

\* variant: a lookup by identifier that gives nothing falls back to the name search
ArtistDoneWithFallback(s, ret) ==
    IF ret = None THEN Call(s, "search", "search", Query(s.seed_input))
    ELSE SeedReturned(s, ret, TRUE)

\* line 90
ArtistDone(s, ret) == SeedReturned(s, ret, TRUE)

\* lines 93-95
SearchDone(s, ret) ==
    IF ret # None /\ ret[1].items # <<>>
    THEN SeedReturned(s, Some(ret[1].items[1]), TRUE)
    ELSE SeedReturned(s, None, TRUE)

search_artist(s, name_or_id) ==
    LET s1 == [s EXCEPT !.seed_input = name_or_id]
        artist_id == extract_artist_id(name_or_id)
    IN  IF Hit(s.cache_search, name_or_id, s.now)
        THEN SeedReturned(s1, s.cache_search[name_or_id].value, FALSE)
        ELSE IF artist_id # None
             THEN Call(s1, "artist", "artist", artist_id[1])
             ELSE Call(s1, "search", "search", Query(name_or_id))

\* lines 175-180
submit(s, inp, n, t) ==
    LET s1 == [s EXCEPT !.seed_input = inp, !.n_suggestions = n, !.pop_thresh = t]
    IN  IF Blank(inp) THEN Finish(s1, "blank") ELSE search_artist(s1, inp)

-----------------------------------------------------------------------------
(* The script: one run per submit, the remote API answering in between *)

CallSites == {"artist", "search", "related", "artists", "top_tracks"}
TickSteps == {TTL - 1, TTL}
DirectThresholds == {0, 60, 101}

StateIs(s) ==
    /\ pc = s.pc /\ entry = s.entry /\ seed_input = s.seed_input
    /\ n_suggestions = s.n_suggestions /\ pop_thresh = s.pop_thresh
    /\ call = s.call /\ invoked = s.invoked /\ signals = s.signals
    /\ sleeps = s.sleeps /\ last_answer = s.last_answer /\ last_ret = s.last_ret
    /\ log = s.log /\ seed_artist = s.seed_artist /\ ids = s.ids
    /\ chunk_i = s.chunk_i /\ details = s.details /\ fetched = s.fetched
    /\ related = s.related /\ art_i = s.art_i /\ playlist = s.playlist
    /\ total_ms = s.total_ms /\ retrieved = s.retrieved /\ outcome = s.outcome
    /\ links = s.links /\ full_links = s.full_links /\ auth_error = s.auth_error
    /\ cache_search = s.cache_search /\ cache_details = s.cache_details
    /\ now = s.now /\ api = s.api /\ frames = s.frames
    /\ requests = s.requests /\ throttles = s.throttles

\* the process has started and the form is displayed
Started(e) ==
    [pc |-> "idle", entry |-> e, seed_input |-> <<>>, n_suggestions |-> 0,
     pop_thresh |-> 0, call |-> NoCall, invoked |-> <<>>, signals |-> <<>>,
     sleeps |-> <<>>, last_answer |-> NoAnswer, last_ret |-> None, log |-> <<>>,
     seed_artist |-> None, ids |-> <<>>, chunk_i |-> 0, details |-> <<>>,
     fetched |-> <<>>, related |-> <<>>, art_i |-> 0, playlist |-> <<>>,
     total_ms |-> 0, retrieved |-> FALSE, outcome |-> "none", links |-> <<>>,
     full_links |-> <<>>, auth_error |-> FALSE,
     cache_search |-> EmptyCache, cache_details |-> EmptyCache, now |-> 0,
     api |-> "clears", frames |-> 0, requests |-> 0, throttles |-> 0]

Init == StateIs(Started("submit"))

\* the user presses the form's button (a Streamlit script runs from its top)
Submit ==
    /\ pc = "idle"
    /\ \E inp \in FormInputs, n \in CountValues, t \in ThresholdValues :
           Becomes(submit(Fresh(Cur, "submit"), inp, n, t))

\* the remote API answers 429
Throttled ==
    /\ pc \in CallSites
    /\ throttles < (IF entry = "submit" THEN MaxRunThrottle ELSE MaxThrottle)
    /\ frames < RecursionLimit
    /\ \E a \in ThrottleAnswers :
           /\ now + RetryAfter(a) <= MaxNow
           /\ Becomes(Retry(Cur, a))

ArtistAnswered ==
    /\ pc = "artist"
    /\ \E a \in ArtistAnswers : Becomes(ArtistDone(Returned(Cur, a), safe_sp_call(a)))

SearchAnswered ==
    /\ pc = "search"
    /\ \E a \in SearchAnswers : Becomes(SearchDone(Returned(Cur, a), safe_sp_call(a)))

RelatedAnswered ==
    /\ pc = "related"
    /\ \E a \in RelatedAnswers(IF entry = "submit" THEN MaxRelated ELSE MaxDirectRelated) :
           Becomes(RelatedDone(Returned(Cur, a), safe_sp_call(a)))

BatchAnswered ==
    /\ pc = "artists"
    /\ \E a \in BatchAnswers(call.arg, IF entry = "submit" THEN RunPopValues ELSE PopValues) :
           Becomes(BatchDone(Returned(Cur, a), safe_sp_call(a)))

TopTracksAnswered ==
    /\ pc = "top_tracks"
    /\ \E a \in TopTracksAnswers :
           Becomes(TopTracksDone(Returned(Cur, a), safe_sp_call(a)))

\* time passes between two runs
Tick ==
    /\ pc \in {"idle", "done"}
    /\ \E d \in TickSteps :
           /\ now + d <= MaxNow
           /\ Becomes([Cur EXCEPT !.now = @ + d])

Next ==
    \/ Submit
    \/ Throttled
    \/ ArtistAnswered
    \/ SearchAnswered
    \/ RelatedAnswered
    \/ BatchAnswered
    \/ TopTracksAnswered
    \/ Tick

Spec == Init /\ [][Next]_vars

-----------------------------------------------------------------------------
(* search_artist called directly, several times in one process *)

InitSearch == StateIs(Started("search_artist"))

CallSearch ==
    /\ pc \in {"idle", "done"}
    /\ requests < MaxRequests
    /\ \E inp \in FormInputs \ {<<" ">>} :
           Becomes(search_artist(Fresh(Cur, "search_artist"), inp))

NextSearch ==
    \/ CallSearch
    \/ Throttled
    \/ ArtistAnswered
    \/ SearchAnswered
    \/ Tick

SpecSearch == InitSearch /\ [][NextSearch]_vars

-----------------------------------------------------------------------------
(* search_artist(name_or_id) called directly, once *)

InitResolve ==
    \E inp \in SeedInputs :
        StateIs(search_artist(Fresh(Started("search_artist"), "search_artist"), inp))

NextResolve ==
    \/ Throttled
    \/ ArtistAnswered
    \/ SearchAnswered

SpecResolve == InitResolve /\ [][NextResolve]_vars

-----------------------------------------------------------------------------
(* get_related_artists(artist_id, num_artists, popularity_threshold) called directly *)

InitRelated ==
    \E a \in SeedArtists, N \in 0 .. MaxCount, T \in DirectThresholds :
        StateIs(get_related_artists(
                    [Fresh(Started("get_related_artists"), "get_related_artists")
                         EXCEPT !.seed_artist = Some(a), !.n_suggestions = N,
                                !.pop_thresh = T],
                    a.id))

NextRelated ==
    \/ Throttled
    \/ RelatedAnswered
    \/ BatchAnswered

SpecRelated == InitRelated /\ [][NextRelated]_vars

-----------------------------------------------------------------------------
(* fetch_artist_details(ids) called directly *)

InitFetch ==
    \E m \in 0 .. MaxIds :
        StateIs(fetch_artist_details(
                    Fresh(Started("fetch_artist_details"), "fetch_artist_details"),
                    [i \in 1 .. m |-> ArtistId(i)]))

NextFetch ==
    \/ Throttled
    \/ BatchAnswered

SpecFetch == InitFetch /\ [][NextFetch]_vars

-----------------------------------------------------------------------------
(* generate_playlist_search_link(tracks) and generate_streaming_links(track_name,
   artist_name) called directly *)

\* the track at place i of a list has a name that starts with the i-th letter
LinkLetters == <<"a","b","c","d","e","f","g","h">>
LinkTrackNames(i) == {<<LinkLetters[i]>>, <<LinkLetters[i], " ", "&", "?">>}
LinkArtistNames == {<<"X","y">>, <<"X",",","+","y">>}

LinkTrackLists ==
    UNION { { [i \in 1 .. n |-> [name |-> f[i], artist |-> a, duration_ms |-> 1200000]] :
                  f \in {g \in [1 .. n -> UNION {LinkTrackNames(i) : i \in 1 .. n}] :
                             \A i \in 1 .. n : g[i] \in LinkTrackNames(i)},
                  a \in LinkArtistNames } :
            n \in 0 .. MaxLinkTracks }

InitLinks == StateIs(Started("links"))

PlaylistLinkCalled ==
    /\ pc = "idle"
    /\ \E tracks \in LinkTrackLists :
           Becomes(Finish([Cur EXCEPT !.entry = "generate_playlist_search_link",
                                      !.playlist = tracks,
                                      !.full_links = generate_playlist_search_link(tracks)],
                          "returned"))

StreamingLinksCalled ==
    /\ pc = "idle"
    /\ \E i \in 1 .. MaxLinkTracks, a \in LinkArtistNames :
           \E nm \in LinkTrackNames(i) :
               Becomes(Finish([Cur EXCEPT
                                  !.entry = "generate_streaming_links",
                                  !.playlist = <<[name |-> nm, artist |-> a,
                                                  duration_ms |-> 1200000]>>,
                                  !.links = <<generate_streaming_links(nm, a)>>],
                              "returned"))

NextLinks ==
    \/ PlaylistLinkCalled
    \/ StreamingLinksCalled

SpecLinks == InitLinks /\ [][NextLinks]_vars

-----------------------------------------------------------------------------
(* The script against a remote API that answers every call, and either lets a
   call through after at most MaxRunThrottle 429s or answers 429 for ever.  The
   histories (signals, sleeps, invoked, the clock) record the first
   MaxRunThrottle retries; a later retry is the same code with the histories
   left as they are.  Each retry is a nested call of safe_sp_call (line 58), so
   the retries of one call are as many as the interpreter lets calls nest. *)

ApiModes == {"clears", "throttles_forever"}

InitLive == \E mode \in ApiModes : StateIs([Started("submit") EXCEPT !.api = mode])

\* a 429 after the recorded ones
ThrottledOn ==
    /\ pc \in CallSites
    /\ api = "throttles_forever"
    /\ throttles >= MaxRunThrottle
    /\ frames < RecursionLimit
    /\ \E a \in ThrottleAnswers :
           Becomes([Retry(Cur, a) EXCEPT !.signals = signals, !.sleeps = sleeps,
                                        !.invoked = invoked, !.now = now,
                                        !.throttles = throttles])

\* the remote API answers 429
Throttling == Throttled \/ ThrottledOn

\* what the caller of safe_sp_call does with what it returned
Continue(s, ret) ==
    CASE s.pc = "artist" -> ArtistDone(s, ret)
      [] s.pc = "search" -> SearchDone(s, ret)
      [] s.pc = "related" -> RelatedDone(s, ret)
      [] s.pc = "artists" -> BatchDone(s, ret)
      [] s.pc = "top_tracks" -> TopTracksDone(s, ret)

\* No further call can be nested: a RecursionError is raised.  Raised by the
\* nested safe_sp_call of line 58, in the handler of the 429, it leaves every
\* frame of safe_sp_call and ends the run of the script; raised inside fn, in the
\* try block, it is handled as an unexpected error (lines 65-67: None is
\* returned), unless st.warning cannot be called either.
StackExhausted ==
    /\ pc \in CallSites
    /\ frames >= RecursionLimit
    /\ \/ Becomes([Cur EXCEPT !.pc = "done", !.outcome = "RecursionError",
                               !.call = NoCall, !.frames = 0])
       \/ Becomes(Continue(Returned(Cur, Fail(0)), None))

\* the remote API gives an answer that is no 429
Answered ==
    /\ api = "clears"
    /\ \/ ArtistAnswered
       \/ SearchAnswered
       \/ RelatedAnswered
       \/ BatchAnswered
       \/ TopTracksAnswered

NextLive ==
    \/ Submit
    \/ Throttled
    \/ ThrottledOn
    \/ StackExhausted
    \/ Answered
    \/ Tick

\* A step of Answered, told by what it changes: taken at a call site, it leaves
\* the count of 429s as it is and ends the run, or moves to another call site, or
\* to the next artist's top tracks.  The steps of NextLive that satisfy it are the
\* steps of Answered (AnsweredStepIsAnswered), and it is enabled where Answered is
\* (AnsweredStepEnabled); it states the fairness of Answered in a form that is
\* evaluated without computing the continuation of every possible answer.
AnsweredStep ==
    /\ api = "clears"
    /\ pc \in CallSites
    /\ throttles' = throttles
    /\ pc' \in CallSites \cup {"done"}
    /\ art_i' \in 0 .. (MaxRelated + 1)

\* every call is answered (a 429 is retried while calls can nest); an API that
\* clears does not answer a call with 429s only
SpecLive ==
    /\ InitLive
    /\ [][NextLive]_vars
    /\ WF_<<throttles, frames>>(Throttling)
    /\ WF_<<pc, frames>>(StackExhausted)
    /\ WF_<<pc, art_i>>(AnsweredStep)

AnsweredStepIsAnswered ==
    [][ Answered <=> (AnsweredStep /\ <<pc, art_i>>' # <<pc, art_i>>) ]_vars
AnsweredStepEnabled ==
    (api = "clears" /\ pc \in CallSites) <=> ENABLED Answered

-----------------------------------------------------------------------------
(* Properties *)

RECURSIVE Sum(_)
Sum(seq) == IF seq = <<>> THEN 0 ELSE Head(seq) + Sum(Tail(seq))

RECURSIVE Flatten(_)
Flatten(seqs) == IF seqs = <<>> THEN <<>> ELSE Head(seqs) \o Flatten(Tail(seqs))

\* the delay a 429 advises: its Retry-After header, 1 second when it has none
AdvisedDelay(header) == IF header = Absent THEN 1 ELSE header

\* C1: a safe_sp_call that received k throttle signals has slept once per signal,
\* each time for at least the advised delay (so at least their sum has passed on
\* the clock), has re-invoked the same operation with the same arguments after
\* each sleep, and returns the result of the last invocation when it succeeds.
C1_ThrottleSleepsAndRetries ==
    /\ Len(sleeps) = Len(signals)
    /\ \A i \in 1 .. Len(signals) : sleeps[i] >= AdvisedDelay(signals[i])
    /\ now >= Sum([i \in 1 .. Len(signals) |-> AdvisedDelay(signals[i])])
    /\ Len(invoked) = Len(signals) + 1
    /\ \A i \in 1 .. Len(invoked) : invoked[i] = log[Len(log)]
    /\ (pc = "done" /\ last_answer.status = 200)
           => /\ last_ret = Some(last_answer.value)
              /\ (log[Len(log)].op = "artist" => seed_artist = Some(last_answer.value))

C1_Witness ==
    /\ pc = "done"
    /\ signals = <<2, Absent>>
    /\ sleeps = <<2, 1>>
    /\ Len(invoked) = 3
    /\ last_answer.status = 200
    /\ seed_artist # None

\* C2, as claimed: once safe_sp_call has met a 401/403, the run issues no further
\* remote call and does not end with an empty-result outcome or a playlist.
C2_AuthFailureHaltsRun ==
    auth_error =>
        /\ pc \notin CallSites
        /\ outcome \notin {"no_related", "no_tracks", "playlist"}

\* popularity as the claim reads it: a missing popularity counts as 100
ClaimedPopularity(a) == IF a.popularity = NoPop THEN 100 ELSE a.popularity
PosIn(seq, a) == CHOOSE i \in 1 .. Len(seq) : seq[i] = a
Before(seq, a, b) ==
    \/ ClaimedPopularity(a) < ClaimedPopularity(b)
    \/ ClaimedPopularity(a) = ClaimedPopularity(b) /\ PosIn(seq, a) < PosIn(seq, b)

\* C3: what get_related_artists returns is the first N of the detail records below
\* the threshold T, in ascending popularity, equal popularities in relation order.
C3_CandidateSetIsRankedPrefix ==
    pc = "done" =>
        LET below == {i \in 1 .. Len(fetched) : ClaimedPopularity(fetched[i]) < pop_thresh}
        IN  /\ \A j \in 1 .. Len(related) :
                   /\ related[j] \in Range(fetched)
                   /\ ClaimedPopularity(related[j]) < pop_thresh
            /\ \A j, k \in 1 .. Len(related) :
                   j < k => Before(fetched, related[j], related[k])
            /\ Len(related) = Min(n_suggestions, Cardinality(below))
            /\ \A i \in below :
                   fetched[i] \notin Range(related)
                       => \A j \in 1 .. Len(related) : Before(fetched, related[j], fetched[i])

C3_Witness ==
    /\ pc = "done"
    /\ n_suggestions = 2
    /\ pop_thresh = 101
    /\ Len(fetched) = 3
    /\ fetched[1].popularity = NoPop
    /\ fetched[2].popularity = 100
    /\ fetched[3].popularity = 10
    /\ related = <<fetched[3], fetched[1]>>

\* C4: fetch_artist_details passes at most 50 identifiers to a batch lookup; when
\* it has returned it has made ceil(M/50) safe_sp_call calls, whose arguments are
\* the identifier list cut in consecutive pieces.
C4_ChunksOfAtMostFifty ==
    /\ \A i \in 1 .. Len(log) : log[i].op = "artists" /\ Len(log[i].arg) <= 50
    /\ \A i \in 1 .. Len(invoked) : Len(invoked[i].arg) <= 50
    /\ pc = "done" =>
           /\ Len(log) = (Len(ids) + 49) \div 50
           /\ Flatten([i \in 1 .. Len(log) |-> log[i].arg]) = ids

C4_Witness ==
    /\ pc = "done"
    /\ Len(ids) = 101
    /\ Len(log) = 3
    /\ throttles > 0
    /\ Len(fetched) = 51

\* C5: total_ms is the sum of the durations of the tracks in the playlist; the
\* playlist is empty (and the total 0) when no top-tracks call returned a track,
\* and non-empty as soon as one did.
C5_TotalIsSumOfDurations ==
    /\ total_ms = Sum([i \in 1 .. Len(playlist) |-> playlist[i].duration_ms])
    /\ ~retrieved => playlist = <<>> /\ total_ms = 0
    /\ retrieved => playlist # <<>>

C5_Witness ==
    /\ pc = "done"
    /\ outcome = "playlist"
    /\ Len(playlist) = 3
    /\ total_ms = 6000000
    /\ playlist[3].artist # playlist[1].artist

\* C6, as claimed: the playlist's total duration does not exceed the target.
C6_TotalWithinTarget == total_ms <= target_ms

\* C6, amended: the total without the last track is below the target, so the total
\* exceeds the target by less than the duration of the last track.
C6_TotalBeforeLastTrackBelowTarget ==
    playlist # <<>> => total_ms - playlist[Len(playlist)].duration_ms < target_ms

C6_Witness ==
    /\ pc = "done"
    /\ outcome = "playlist"
    /\ total_ms > target_ms

\* whose tracks an entry of the playlist is: 0 for the seed, i for related[i]
RankOf(e) ==
    IF e.artist = seed_artist[1].name THEN 0
    ELSE CHOOSE i \in 1 .. Len(related) : related[i].name = e.artist
\* the place of the entry's track in the top-tracks answer it came from
TrackNo(e) == CHOOSE k \in 1 .. MaxTracks : e.name = Track(k, 0).name

\* C7: the playlist holds the seed's tracks, then the candidates' tracks in rank
\* order, each artist's tracks in the order of the answer, at most 2 per artist.
C7_PlaylistInInsertionOrder ==
    /\ \A i \in 1 .. Len(playlist) :
           \/ playlist[i].artist = seed_artist[1].name
           \/ \E j \in 1 .. Len(related) : related[j].name = playlist[i].artist
    /\ \A i, j \in 1 .. Len(playlist) :
           i < j => \/ RankOf(playlist[i]) < RankOf(playlist[j])
                    \/ /\ RankOf(playlist[i]) = RankOf(playlist[j])
                       /\ TrackNo(playlist[i]) < TrackNo(playlist[j])
    /\ \A r \in 0 .. Len(related) :
           Cardinality({i \in 1 .. Len(playlist) : RankOf(playlist[i]) = r}) <= 2

C7_Witness ==
    /\ pc = "done"
    /\ Len(related) = 2
    /\ Len(playlist) = 3
    /\ RankOf(playlist[1]) = 0
    /\ RankOf(playlist[2]) = 2
    /\ RankOf(playlist[3]) = 2
    /\ TrackNo(playlist[3]) = 2

\* C8: an input that holds an identifier is resolved by one lookup of that
\* identifier and no name search, whatever the lookup answers; any other input by
\* one name search for it.
C8_IdentifierInputsSkipSearch ==
    /\ seed_input \in {URIPrefix \o Id5, ProfileURL}
           => log = <<[op |-> "artist", arg |-> Id5]>>
    /\ seed_input = Id22 => log = <<[op |-> "artist", arg |-> Id22]>>
    /\ seed_input \in {<<>>, <<" ">>, <<"A","b">>, Id21, URIPrefix}
           => log = <<[op |-> "search", arg |-> <<"a","r","t","i","s","t",":">> \o seed_input]>>
    /\ \A i \in 1 .. Len(log) :
           log[i].op = "search" => extract_artist_id(seed_input) = None

C8_Witness ==
    /\ pc = "done"
    /\ seed_input = ProfileURL
    /\ last_answer.status = 404
    /\ seed_artist = None
    /\ Len(invoked) = 1

\* C9: when the related-artists call gives an empty list, a not-found or another
\* non-fatal failure, the run ends there with the 'no related artists' outcome:
\* an empty CandidateSet, no batch lookup and no top-tracks call.
C9_NoRelationsEndsRun ==
    [][ ( /\ pc = "related"
          /\ pc' # "related"
          /\ \/ last_answer'.status \in {404, 500, 0}
             \/ last_answer'.status = 200 /\ last_answer'.value.artists = <<>> )
        => /\ pc' = "done"
           /\ outcome' = "no_related"
           /\ related' = <<>>
           /\ log' = log
           /\ cache_details' = cache_details ]_vars

C9_Witness ==
    /\ pc = "done"
    /\ outcome = "no_related"
    /\ last_answer.status = 404
    /\ log[Len(log)].op = "artist_related_artists"
    /\ ~auth_error

\* C10: a lookup whose input has an entry less than 3600 s old is answered from
\* the entry without a remote call; any other lookup issues the remote call; a
\* lookup that called the remote API stores what it returns for 3600 s; and an
\* entry that has not expired is neither removed nor replaced.
C10_LookupsWithinTheHourAreCached ==
    [][ /\ requests' = requests + 1 =>
               IF /\ seed_input' \in DOMAIN cache_search
                  /\ now < cache_search[seed_input'].expires
               THEN /\ pc' = "done"
                    /\ log' = <<>>
                    /\ seed_artist' = cache_search[seed_input'].value
               ELSE /\ pc' \in {"artist", "search"}
                    /\ Len(log') = 1
        /\ (pc \in {"artist", "search"} /\ pc' = "done") =>
               cache_search'[seed_input] = [value |-> seed_artist', expires |-> now' + 3600]
        /\ \A k \in DOMAIN cache_search :
               now < cache_search[k].expires =>
                   k \in DOMAIN cache_search' /\ cache_search'[k] = cache_search[k] ]_vars

C10_Witness ==
    /\ pc = "done"
    /\ requests = 2
    /\ log = <<>>
    /\ seed_artist # None
    /\ now >= 3599
    /\ now < cache_search[seed_input].expires

\* s holds sub as a run of consecutive elements
Contains(s, sub) ==
    \E p \in 1 .. (Len(s) - Len(sub) + 1) : SubSeq(s, p, p + Len(sub) - 1) = sub
\* what follows the first n characters of a URL
After(url, n) == SubSeq(url, n + 1, Len(url))
StartsWith(url, pre) == Len(url) >= Len(pre) /\ SubSeq(url, 1, Len(pre)) = pre
\* characters that a URL-encoded phrase may hold
EncodedChars ==
    {"%", "+", "_", ".", "-", "~"} \cup Lower \cup Upper \cup Digit
\* the three services of the multi-track search, in order, each with the URL it
\* searches by, all with the same phrase
ThreeServiceLinks(m) ==
    /\ Len(m) = 3
    /\ m[1].service = "Spotify" /\ m[2].service = "Apple Music"
    /\ m[3].service = "Deezer"
    /\ StartsWith(m[1].url, SpotifySearch)
    /\ StartsWith(m[2].url, AppleSearch)
    /\ StartsWith(m[3].url, DeezerSearch)
    /\ After(m[2].url, Len(AppleSearch)) = After(m[1].url, Len(SpotifySearch))
    /\ After(m[3].url, Len(DeezerSearch)) = After(m[1].url, Len(SpotifySearch))
\* the phrase of the first link names the first min(n, 4) tracks and no later one
PhraseOfFirstFour(m, tracks) ==
    LET q == After(m[1].url, Len(SpotifySearch))
    IN  /\ \A k \in 1 .. Len(q) : q[k] \in EncodedChars
        /\ \A i \in 1 .. Len(tracks) :
               Contains(q, <<tracks[i].name[1]>>) <=> i <= 4
        /\ Contains(q, <<"X">>)
\* the four services of the single-track search, all with the same phrase, which
\* names the track and the artist
FourServiceLinks(m, track) ==
    LET q == After(m[1].url, Len(SpotifySearch))
    IN  /\ Len(m) = 4
        /\ m[1].service = "Spotify" /\ m[2].service = "Apple Music"
        /\ m[3].service = "Deezer" /\ m[4].service = "YouTube Music"
        /\ StartsWith(m[1].url, SpotifySearch)
        /\ StartsWith(m[2].url, AppleSearch)
        /\ StartsWith(m[3].url, DeezerSearch)
        /\ StartsWith(m[4].url, YouTubeSearch)
        /\ \A k \in 2 .. 4 :
               After(m[k].url, Len(m[k].url) - Len(q)) = q
        /\ \A k \in 1 .. Len(q) : q[k] \in EncodedChars
        /\ StartsWith(q, <<track.name[1]>>)
        /\ Contains(q, <<"+", "X">>)

\* C11, as claimed: generate_playlist_search_link returns three entries (Spotify,
\* Apple Music, Deezer) for every track list, the empty list included, with a
\* phrase that names at most the first 4 tracks; generate_streaming_links returns
\* its four entries.
C11_AlwaysThreeEntries ==
    /\ (pc = "done" /\ entry = "generate_playlist_search_link")
           => ThreeServiceLinks(full_links) /\ PhraseOfFirstFour(full_links, playlist)
    /\ (pc = "done" /\ entry = "generate_streaming_links")
           => FourServiceLinks(links[1], playlist[1])

\* C11, amended: for a non-empty track list generate_playlist_search_link returns
\* three entries (Spotify, Apple Music, Deezer, in that order) whose common phrase
\* is URL-encoded and names the first min(n, 4) tracks and no later one; for the
\* empty list it returns the empty mapping; generate_streaming_links returns four
\* entries (Spotify, Apple Music, Deezer, YouTube Music) with one common phrase
\* naming the track and the artist.
C11_ThreeEntriesUnlessEmpty ==
    /\ (pc = "done" /\ entry = "generate_playlist_search_link") =>
           IF playlist = <<>> THEN full_links = <<>>
           ELSE ThreeServiceLinks(full_links) /\ PhraseOfFirstFour(full_links, playlist)
    /\ (pc = "done" /\ entry = "generate_streaming_links")
           => FourServiceLinks(links[1], playlist[1])

C11_Witness ==
    /\ pc = "done"
    /\ entry = "generate_playlist_search_link"
    /\ Len(playlist) = 5
    /\ Len(full_links) = 3
    /\ Contains(full_links[3].url, <<"d","+","%","2","6","%","3","F","+","X","%","2","C","%","2","B","y">>)

\* C12: a step appends tracks to the playlist only, and each track it appends is
\* appended at a running total (the total before the step plus the tracks the step
\* appended before it) strictly below the target; so when the run has ended the
\* total without the last track is below the target, i.e. the total exceeds the
\* target by less than the duration of the last track.
C12_AppendOnlyBelowTarget ==
    [][ /\ playlist' # playlist =>
               /\ Len(playlist') > Len(playlist)
               /\ SubSeq(playlist', 1, Len(playlist)) = playlist
               /\ \A k \in (Len(playlist) + 1) .. Len(playlist') :
                      total_ms + Sum([j \in 1 .. (k - 1 - Len(playlist)) |->
                                         playlist'[Len(playlist) + j].duration_ms])
                          < target_ms
        /\ (pc' = "done" /\ playlist' # <<>>) =>
               /\ total_ms' - playlist'[Len(playlist')].duration_ms < 3600000
               /\ total_ms' - 3600000 < playlist'[Len(playlist')].duration_ms ]_vars

C12_Witness ==
    /\ pc = "done"
    /\ Len(playlist) = 3
    /\ playlist[3].artist # seed_artist[1].name
    /\ playlist[3].duration_ms = 3600000
    /\ total_ms = 6000000
    /\ Len(log) = 5

\* the top-tracks calls of the run, in the order they were issued
TopTrackCalls == SelectSeq(log, LAMBDA c : c.op = "artist_top_tracks")
\* the total duration of the playlist's tracks of the seed and of the candidates
\* ranked before the j-th
TotalBeforeRank(j) ==
    Sum([i \in 1 .. Len(playlist) |->
            IF RankOf(playlist[i]) < j THEN playlist[i].duration_ms ELSE 0])

\* C13: no top-tracks call is in flight once the total has reached the target;
\* the top-tracks calls are for the seed and then for the candidates in rank
\* order, a candidate being called only while the total of the tracks before it
\* is below the target; no track follows a point where the total had reached the
\* target; and a run that ends with the total below the target has called every
\* candidate, whatever the calls returned.
C13_StopsAtTargetElseVisitsAll ==
    LET calls == TopTrackCalls
    IN  /\ pc = "top_tracks" => total_ms < 3600000
        /\ calls # <<>> =>
               /\ calls[1].arg = <<seed_artist[1].id>>
               /\ Len(calls) <= Len(related) + 1
               /\ \A j \in 1 .. (Len(calls) - 1) :
                      /\ calls[j + 1].arg = <<related[j].id>>
                      /\ TotalBeforeRank(j) < 3600000
        /\ \A i \in 1 .. Len(playlist) :
               Sum([k \in 1 .. (i - 1) |-> playlist[k].duration_ms]) < 3600000
        /\ (pc = "done" /\ outcome \in {"playlist", "no_tracks"}) =>
               IF total_ms < 3600000 THEN Len(calls) = Len(related) + 1
               ELSE /\ TotalBeforeRank(Len(calls)) >= 3600000
                    /\ Len(calls) >= 1

\* the first candidate's call gave nothing and the second was still called
C13_Witness ==
    /\ pc = "done"
    /\ Len(related) = 2
    /\ Len(TopTrackCalls) = 3
    /\ Len(playlist) = 2
    /\ RankOf(playlist[1]) = 0
    /\ RankOf(playlist[2]) = 2
    /\ total_ms < 3600000

C15_ReturnsUnlessThrottledForever ==
    /\ (api = "clears" /\ pc \in {"artist", "search", "related", "artists", "top_tracks"})
           ~> (pc = "done" /\ outcome # "none" /\ call.op = "none")
    /\ [][ (api = "throttles_forever" /\ pc \notin {"idle", "done"})
               => /\ pc' = pc
                  /\ call' = call
                  /\ outcome' = "none"
                  /\ frames' = frames + 1 ]_vars

\* C16: when the batch lookup of a chunk ends (on an answer that is no 429), the
\* list under construction gains the records of the answer if the lookup
\* succeeded and nothing otherwise; then the next chunk of 50 is requested if the
\* identifiers are not exhausted, whatever the answer was, and otherwise the list
\* is returned as it is, with no error.
C16_FailedChunkIsSkipped ==
    [][ (pc = "artists" /\ last_answer'.status # 429) =>
            /\ details' = IF last_answer'.status = 200
                          THEN details \o last_answer'.value.artists
                          ELSE details
            /\ IF 50 * Len(log) < Len(ids)
               THEN /\ pc' = "artists"
                    /\ log' = Append(log, call')
                    /\ call'.op = "artists"
                    /\ call'.arg = SubSeq(ids, 50 * Len(log) + 1,
                                          Min(50 * Len(log) + 50, Len(ids)))
               ELSE /\ pc' = "done"
                    /\ outcome' = "returned"
                    /\ fetched' = details'
                    /\ log' = log ]_vars

\* of three chunks the second failed: the records are those of the first and the
\* third
C16_Witness ==
    /\ pc = "done"
    /\ Len(ids) = 101
    /\ Len(log) = 3
    /\ Len(fetched) = 51
    /\ \A i \in 1 .. 50 : fetched[i].id = ids[i]
    /\ fetched[51].id = ids[101]

\* C17: a search_artist lookup that ends without an artist because the remote
\* call failed (authorization failure, server error, unexpected error) stores
\* nothing, and the next lookup of the same input issues the remote call again.
C17_FailedLookupIsNotCached ==
    [][ /\ ( /\ pc \in {"artist", "search"}
             /\ pc' = "done"
             /\ last_answer'.status \in {401, 403, 500, 0} )
               => cache_search' = cache_search
        /\ ( /\ pc = "done"
             /\ log # <<>>
             /\ last_answer.status \in {401, 403, 500, 0}
             /\ requests' = requests + 1
             /\ seed_input' = seed_input )
               => /\ pc' \in {"artist", "search"}
                  /\ Len(log') = 1 ]_vars

\* the remote operations called in the run
OpsCalled == {log[i].op : i \in 1 .. Len(log)}

\* C18: a run on a blank seed ends without a remote call; a run on any other seed
\* ends in exactly one of four outcomes, the first that applies: 'seed not found'
\* when the seed did not resolve (only the lookup was called), 'no related' when
\* the candidates are empty (no top-tracks call), 'no tracks' when the playlist
\* is empty, and the playlist, not empty, otherwise.
C18_OneOfFourOutcomesInOrder ==
    pc = "done" =>
        IF Blank(seed_input)
        THEN outcome = "blank" /\ log = <<>>
        ELSE /\ outcome \in {"seed_not_found", "no_related", "no_tracks", "playlist"}
             /\ outcome = "seed_not_found" <=> seed_artist = None
             /\ outcome = "seed_not_found" => OpsCalled \subseteq {"artist", "search"}
             /\ outcome = "no_related" <=> (seed_artist # None /\ related = <<>>)
             /\ outcome = "no_related" => "artist_top_tracks" \notin OpsCalled
             /\ outcome = "no_tracks" <=>
                    (seed_artist # None /\ related # <<>> /\ playlist = <<>>)
             /\ outcome = "playlist" <=>
                    (seed_artist # None /\ related # <<>> /\ playlist # <<>>)

=============================================================================
